---------------------------- MODULE Spec2Model ----------------------------
(***************************************************************************)
(* Model of epsilon_transformers/persistence.py: the two persisters        *)
(* (LocalPersister, S3Persister) and the config inference function         *)
(* _state_dict_to_model_config.                                            *)
(*                                                                         *)
(* Conventions.                                                            *)
(*  - A tensor name is a sequence of tokens; concatenating the tokens      *)
(*    gives the Python string ("blocks.23.attn.W_Q" is                     *)
(*    <<"blocks", ".", "2", "3", ".", "attn", ".", "W_Q">>). Every decimal *)
(*    digit is a token of its own, so \d+ and int() work on digits.        *)
(*  - A regular expression is a sequence of elements, each a set of tokens *)
(*    with an optional "+"; re.match is start-anchored prefix matching.    *)
(*  - A state dict is a sequence of entries [name, shape, data]: the       *)
(*    iteration order of the OrderedDict is the order of the sequence.     *)
(*  - Python's None is the integer None (no tensor dimension is negative). *)
(***************************************************************************)
EXTENDS Integers, Sequences, FiniteSets, TLC

VARIABLES
    registry,     \* which _HOOKED_TRANSFORMER_MODULE_REGEXES_REGISTRY is in use
    state_dict,   \* argument of _state_dict_to_model_config
    n_ctx_arg,    \* the n_ctx argument as the caller gives it (None: omitted)
    pc,           \* position in _state_dict_to_model_config
    idx,          \* index of the tensor the loop of line 151 is at
    param_dict,   \* local param_dict (line 150)
    n_layers0,    \* value _extract_n_layers returned at line 150
    result,       \* outcome of the call
    other_dict,   \* a second state dict with the same entries in another order
    other_result, \* outcome of inference on other_dict
    kind,         \* which persister the collection belongs to
    store,        \* the collection: object name -> stored bytes
    saved,        \* history: object name -> state dict of the save that wrote it
    last          \* the last persister operation and its outcome

vars == <<registry, state_dict, n_ctx_arg, pc, idx, param_dict, n_layers0,
          result, other_dict, other_result, kind, store, saved, last>>

inferVars == <<registry, state_dict, n_ctx_arg, pc, idx, param_dict,
               n_layers0, result>>
orderVars == <<other_dict, other_result>>
storeVars == <<kind, store, saved, last>>

----------------------------------------------------------------------------
(* Bounds of the model *)

\* longest state dict given to config inference
MaxLen == 4

\* largest num_tokens_trained given to save_model
MaxCounter == 2

----------------------------------------------------------------------------
(* Python values *)

None == -1

DefaultNCtx == 10

Digit == {"0", "1", "2", "3", "4", "5", "6", "7", "8", "9"}

DigitChars == <<"0", "1", "2", "3", "4", "5", "6", "7", "8", "9">>

DigitVal(d) == (CHOOSE k \in 1..10 : DigitChars[k] = d) - 1

\* int(s) for a string of decimal digits
RECURSIVE ParseInt(_)
ParseInt(ds) ==
    IF ds = <<>> THEN 0
    ELSE 10 * ParseInt(SubSeq(ds, 1, Len(ds) - 1)) + DigitVal(ds[Len(ds)])

\* str(n) for n >= 0
RECURSIVE FormatInt(_)
FormatInt(n) ==
    IF n < 10 THEN <<DigitChars[n + 1]>>
    ELSE FormatInt(n \div 10) \o <<DigitChars[(n % 10) + 1]>>

Fields == {"d_vocab", "d_model", "n_ctx", "d_head", "n_head", "d_mlp", "n_layers"}

\* a config with no field resolved
NoCfg == [f \in Fields |-> None]

\* an exception: its class, the source line that raises it, and what its
\* message names
Exc(cls, line, detail) ==
    [kind |-> "error", exc |-> cls, line |-> line, detail |-> detail,
     cfg |-> NoCfg, weights |-> <<>>]

----------------------------------------------------------------------------
(* Regular expressions *)

Lit(s) == [plus |-> FALSE, ss |-> {s}]
Alt(S) == [plus |-> FALSE, ss |-> S]
DigitsPlus == [plus |-> TRUE, ss |-> Digit]

\* does pattern pat, from element i on, match name from token j on
RECURSIVE MatchFrom(_, _, _, _)
MatchFrom(pat, i, name, j) ==
    IF i > Len(pat) THEN TRUE
    ELSE IF j > Len(name) THEN FALSE
    ELSE /\ name[j] \in pat[i].ss
         /\ \/ MatchFrom(pat, i + 1, name, j + 1)
            \/ pat[i].plus /\ MatchFrom(pat, i, name, j + 1)

\* bool(re.match(pat, name))
ReMatch(pat, name) == MatchFrom(pat, 1, name, 1)

\* re.search(r'\d+', name).group(): the first maximal run of digits
FirstDigitRun(name) ==
    LET starts == {j \in 1..Len(name) : name[j] \in Digit}
        s == CHOOSE j \in starts : \A k \in starts : j <= k
        ends == {e \in s..Len(name) :
                    /\ \A k \in s..e : name[k] \in Digit
                    /\ (e = Len(name) \/ name[e + 1] \notin Digit)}
        e == CHOOSE x \in ends : TRUE
    IN SubSeq(name, s, e)

BlockPrefix == <<Lit("blocks"), Lit("."), DigitsPlus, Lit(".")>>

Rule(src, pat, instr) == [src |-> src, pat |-> pat, instr |-> instr]

Ins(key, dim) == [key |-> key, dim |-> dim]

InBlock(rest) == BlockPrefix \o rest

RegistryBase ==
    << Rule("embed\\.W_E", <<Lit("embed"), Lit("."), Lit("W_E")>>,
            <<Ins("d_vocab", 0), Ins("d_model", 1)>>),
       Rule("pos_embed\\.W_pos", <<Lit("pos_embed"), Lit("."), Lit("W_pos")>>, <<>>),
       Rule("blocks\\.\\d+\\.ln\\d+\\.(w|b)",
            InBlock(<<Lit("ln"), DigitsPlus, Lit("."), Alt({"w", "b"})>>), <<>>),
       Rule("blocks\\.\\d+\\.attn\\.W_Q", InBlock(<<Lit("attn"), Lit("."), Lit("W_Q")>>),
            <<Ins("n_head", 0), Ins("d_head", 2)>>),
       Rule("blocks\\.\\d+\\.attn\\.b_Q", InBlock(<<Lit("attn"), Lit("."), Lit("b_Q")>>), <<>>),
       Rule("blocks\\.\\d+\\.attn\\.W_K", InBlock(<<Lit("attn"), Lit("."), Lit("W_K")>>), <<>>),
       Rule("blocks\\.\\d+\\.attn\\.b_K", InBlock(<<Lit("attn"), Lit("."), Lit("b_K")>>), <<>>),
       Rule("blocks\\.\\d+\\.attn\\.W_O", InBlock(<<Lit("attn"), Lit("."), Lit("W_O")>>), <<>>),
       Rule("blocks\\.\\d+\\.attn\\.b_O", InBlock(<<Lit("attn"), Lit("."), Lit("b_O")>>), <<>>),
       Rule("blocks\\.\\d+\\.attn\\.W_V", InBlock(<<Lit("attn"), Lit("."), Lit("W_V")>>), <<>>),
       Rule("blocks\\.\\d+\\.attn\\.b_V", InBlock(<<Lit("attn"), Lit("."), Lit("b_V")>>), <<>>),
       Rule("blocks\\.\\d+\\.attn\\.mask", InBlock(<<Lit("attn"), Lit("."), Lit("mask")>>), <<>>),
       Rule("blocks\\.\\d+\\.attn\\.IGNORE", InBlock(<<Lit("attn"), Lit("."), Lit("IGNORE")>>), <<>>),
       Rule("blocks\\.\\d+\\.mlp\\.W_in", InBlock(<<Lit("mlp"), Lit("."), Lit("W_in")>>),
            <<Ins("d_mlp", 1)>>),
       Rule("blocks\\.\\d+\\.mlp\\.b_in", InBlock(<<Lit("mlp"), Lit("."), Lit("b_in")>>), <<>>),
       Rule("blocks\\.\\d+\\.mlp\\.W_out", InBlock(<<Lit("mlp"), Lit("."), Lit("W_out")>>), <<>>),
       Rule("blocks\\.\\d+\\.mlp\\.b_out", InBlock(<<Lit("mlp"), Lit("."), Lit("b_out")>>), <<>>),
       Rule("ln_final\\.(w|b)", <<Lit("ln_final"), Lit("."), Alt({"w", "b"})>>, <<>>),
       Rule("unembed\\.(W_U|b_U)", <<Lit("unembed"), Lit("."), Alt({"W_U", "b_U"})>>, <<>>) >>


\* the registry after a test adds a pattern that matches names the attention
\* patterns already match
RegistryInjected ==
    Append(RegistryBase, Rule("blocks\\.\\d+\\.attn", InBlock(<<Lit("attn")>>), <<>>))

----------------------------------------------------------------------------
(* _state_dict_to_model_config, lines 109-158 *)

NoResult ==
    [kind |-> "none", exc |-> "", line |-> 0, detail |-> {}, cfg |-> NoCfg,
     weights |-> <<>>]

\* no persister operation yet
LastNone ==
    [op |-> "none", key |-> <<>>, weights |-> <<>>, head |-> "", occupied |-> FALSE,
     inferred |-> FALSE, before |-> <<>>, result |-> NoResult]

\* RawModelConfig(**param_dict)
RawModelConfig(pd) ==
    [kind |-> "config", exc |-> "", line |-> 0, detail |-> {}, cfg |-> pd,
     weights |-> <<>>]

\* the n_ctx parameter with its default (line 109)
NCtxFixed(arg) == DefaultNCtx

NCtx(arg) == IF arg = None THEN DefaultNCtx ELSE arg

\* regex_dict of line 152: for every pattern of the registry, whether it
\* matches the name
RegexDict(reg, name) == [k \in 1..Len(reg) |-> ReMatch(reg[k].pat, name)]

\* the list out of _extract_true_key (lines 132-135): the keys whose value is
\* true, in the dict's order
RECURSIVE TrueKeys(_, _)
TrueKeys(rd, k) ==
    IF k > Len(rd) THEN <<>>
    ELSE (IF rd[k] THEN <<k>> ELSE <<>>) \o TrueKeys(rd, k + 1)

ExtractTrueKeyOkLax(out) == Len(out) >= 1

\* the assertion of line 136
ExtractTrueKeyOk(out) == Len(out) = 1

\* the loop of _extract_n_layers (lines 139-147) from key k on
RECURSIVE HighestBlockIdx(_, _, _)
HighestBlockIdx(sd, k, highest) ==
    IF k > Len(sd) THEN highest
    ELSE IF ~ReMatch(BlockPrefix, sd[k].name) THEN HighestBlockIdx(sd, k + 1, highest)
    ELSE LET local == ParseInt(FirstDigitRun(sd[k].name))
         IN HighestBlockIdx(sd, k + 1,
                IF highest = None THEN local
                ELSE IF local > highest THEN local ELSE highest)

ExtractNLayersLast(sd) ==
    LET blocks == {k \in 1..Len(sd) : ReMatch(BlockPrefix, sd[k].name)}
        lastk == CHOOSE k \in blocks : \A j \in blocks : j <= k
    IN IF blocks = {} THEN [ok |-> FALSE, val |-> None]
       ELSE [ok |-> TRUE, val |-> ParseInt(FirstDigitRun(sd[lastk].name)) + 1]

ExtractNLayersCount(sd) ==
    LET blocks == {k \in 1..Len(sd) : ReMatch(BlockPrefix, sd[k].name)}
        idxs == {ParseInt(FirstDigitRun(sd[k].name)) : k \in blocks}
    IN IF blocks = {} THEN [ok |-> FALSE, val |-> None]
       ELSE [ok |-> TRUE, val |-> Cardinality(idxs)]

\* _extract_n_layers (lines 138-148): highest_block_idx + 1, a TypeError
\* (ok = FALSE) when highest_block_idx is still None
ExtractNLayers(sd) ==
    LET highest == HighestBlockIdx(sd, 1, None)
    IN IF highest = None THEN [ok |-> FALSE, val |-> None]
       ELSE [ok |-> TRUE, val |-> highest + 1]

\* param_dict of line 150
InitParamDict(n_ctx, n_layers) ==
    [d_vocab |-> None, d_model |-> None, n_ctx |-> n_ctx, d_head |-> None,
     n_head |-> None, d_mlp |-> None, n_layers |-> n_layers]

UnresolvedAlways(pd, key) == TRUE

\* the test of line 155
Unresolved(pd, key) == pd[key] = None

\* lines 154-156 from instruction k on; module.size()[dim] raises IndexError
\* when the tensor has no dimension dim
RECURSIVE ApplyInstrs(_, _, _, _)
ApplyInstrs(pd, instr, shape, k) ==
    IF k > Len(instr) THEN [err |-> NoResult, pd |-> pd]
    ELSE IF ~Unresolved(pd, instr[k].key) THEN ApplyInstrs(pd, instr, shape, k + 1)
    ELSE IF instr[k].dim + 1 > Len(shape)
         THEN [err |-> Exc("IndexError", 156, {}), pd |-> pd]
    ELSE ApplyInstrs([pd EXCEPT ![instr[k].key] = shape[instr[k].dim + 1]],
                     instr, shape, k + 1)

\* the body of the loop of line 151 for one tensor (lines 152-156); the
\* message of the assertion names the matched patterns (out)
LoopBody(reg, pd, entry) ==
    LET out == TrueKeys(RegexDict(reg, entry.name), 1)
    IN IF ~ExtractTrueKeyOk(out)
       THEN [err |-> Exc("AssertionError", 136,
                         {reg[out[k]].src : k \in 1..Len(out)}),
             pd |-> pd]
       ELSE ApplyInstrs(pd, reg[out[1]].instr, entry.shape, 1)

\* lines 157-158: the assertion has no message
Finish(pd) ==
    IF \A f \in DOMAIN pd : pd[f] # None
    THEN RawModelConfig(pd)
    ELSE Exc("AssertionError", 157, {})

RECURSIVE RunLoop(_, _, _, _)
RunLoop(reg, pd, sd, k) ==
    IF k > Len(sd) THEN Finish(pd)
    ELSE LET r == LoopBody(reg, pd, sd[k])
         IN IF r.err.kind = "error" THEN r.err
            ELSE RunLoop(reg, r.pd, sd, k + 1)

\* the whole call
StateDictToModelConfig(reg, sd, n_ctx) ==
    LET nl == ExtractNLayers(sd)
    IN IF ~nl.ok THEN Exc("TypeError", 148, {})
       ELSE RunLoop(reg, InitParamDict(n_ctx, nl.val), sd, 1)

\* the error names of the specification, as the code raises them
IsInferenceError(r) == r.kind = "error" /\ r.exc = "TypeError" /\ r.line = 148
IsAmbiguousPatternError(r) ==
    r.kind = "error" /\ r.exc = "AssertionError" /\ r.line = 136
IsIncompleteInferenceError(r) ==
    r.kind = "error" /\ r.exc = "AssertionError" /\ r.line = 157

----------------------------------------------------------------------------
(* Inputs of config inference *)

TensorOf(name, shape, data) == [name |-> name, shape |-> shape, data |-> data]

Tensor(name, shape) == TensorOf(name, shape, 0)

N_embed == <<"embed", ".", "W_E">>
N_pos == <<"pos_embed", ".", "W_pos">>
N_q0 == <<"blocks", ".", "0", ".", "attn", ".", "W_Q">>
N_q23 == <<"blocks", ".", "2", "3", ".", "attn", ".", "W_Q">>
N_in0 == <<"blocks", ".", "0", ".", "mlp", ".", "W_in">>
N_ln == <<"blocks", ".", "1", ".", "ln", "1", ".", "w">>
N_foo == <<"foo", ".", "w">>

\* tensor names in a fixed order
NameUniverse == <<N_embed, N_pos, N_q0, N_q23, N_in0, N_ln, N_foo>>

ShapesOf(name) ==
    IF name = N_embed THEN {<<50000, 512>>}
    ELSE IF name = N_q0 THEN {<<8, 512, 64>>, <<4, 512, 32>>}
    ELSE IF name = N_q23 THEN {<<8, 512, 64>>, <<8>>}
    ELSE IF name = N_in0 THEN {<<512, 2048>>}
    ELSE IF name = N_pos THEN {<<10, 512>>}
    ELSE {<<512>>}

Entries ==
    UNION {{Tensor(NameUniverse[k], sh) : sh \in ShapesOf(NameUniverse[k])} :
              k \in 1..Len(NameUniverse)}

NamesIn(sd) == {sd[k].name : k \in 1..Len(sd)}

\* state dicts of exactly n tensors with distinct names, in every order
RECURSIVE DictsOfLen(_)
DictsOfLen(n) ==
    IF n = 0 THEN {<<>>}
    ELSE {Append(sd, e) : <<sd, e>> \in
             {p \in DictsOfLen(n - 1) \X Entries : p[2].name \notin NamesIn(p[1])}}

StateDicts == UNION {DictsOfLen(n) : n \in 0..MaxLen}

NCtxArgs == {None, 7}

RegistryTags == {"base", "injected"}

\* the registry the variable registry names
Registry(tag) == IF tag = "base" THEN RegistryBase ELSE RegistryInjected

----------------------------------------------------------------------------
(* Specification of config inference: one call, tensor by tensor *)

InitInfer ==
    /\ registry \in RegistryTags
    /\ state_dict \in StateDicts
    /\ n_ctx_arg \in NCtxArgs
    /\ pc = "start"
    /\ idx = 0
    /\ param_dict = NoCfg
    /\ n_layers0 = None
    /\ result = NoResult

IdleOrder == other_dict = <<>> /\ other_result = NoResult

IdleStore ==
    /\ kind = "none"
    /\ store = <<>>
    /\ saved = <<>>
    /\ last = LastNone

Init == InitInfer /\ IdleOrder /\ IdleStore

\* line 150
Begin ==
    /\ pc = "start"
    /\ LET nl == ExtractNLayers(state_dict)
       IN IF ~nl.ok
          THEN /\ pc' = "done"
               /\ result' = Exc("TypeError", 148, {})
               /\ UNCHANGED <<idx, param_dict, n_layers0>>
          ELSE /\ pc' = "loop"
               /\ idx' = 1
               /\ n_layers0' = nl.val
               /\ param_dict' = InitParamDict(NCtx(n_ctx_arg), nl.val)
               /\ UNCHANGED result
    /\ UNCHANGED <<registry, state_dict, n_ctx_arg>>

\* lines 151-156 for the tensor at idx
ProcessTensor ==
    /\ pc = "loop"
    /\ idx <= Len(state_dict)
    /\ LET r == LoopBody(Registry(registry), param_dict, state_dict[idx])
       IN IF r.err.kind = "error"
          THEN /\ pc' = "done"
               /\ result' = r.err
               /\ UNCHANGED <<idx, param_dict>>
          ELSE /\ param_dict' = r.pd
               /\ idx' = idx + 1
               /\ UNCHANGED <<pc, result>>
    /\ UNCHANGED <<registry, state_dict, n_ctx_arg, n_layers0>>

\* lines 157-158
Return ==
    /\ pc = "loop"
    /\ idx > Len(state_dict)
    /\ pc' = "done"
    /\ result' = Finish(param_dict)
    /\ UNCHANGED <<registry, state_dict, n_ctx_arg, idx, param_dict, n_layers0>>

Next ==
    \/ Begin /\ UNCHANGED orderVars /\ UNCHANGED storeVars
    \/ ProcessTensor /\ UNCHANGED orderVars /\ UNCHANGED storeVars
    \/ Return /\ UNCHANGED orderVars /\ UNCHANGED storeVars

Spec == Init /\ [][Next]_vars

\* the tensor-by-tensor run ends with the outcome of the whole call
StepwiseAgrees ==
    pc = "done" =>
        result = StateDictToModelConfig(Registry(registry), state_dict, NCtx(n_ctx_arg))

----------------------------------------------------------------------------
(* Properties of config inference *)

\* number of patterns of the registry that match the name
MatchCount(reg, name) ==
    Cardinality({k \in 1..Len(reg) : ReMatch(reg[k].pat, name)})

\* the instruction list of the one pattern that matches the name
InstrOf(reg, name) ==
    reg[CHOOSE k \in 1..Len(reg) : ReMatch(reg[k].pat, name)].instr

Mismatched(reg, sd) == {k \in 1..Len(sd) : MatchCount(reg, sd[k].name) # 1}

\* C1 as stated: whenever some tensor name of the mapping is matched by zero
\* or by more than one pattern, inference fails with AmbiguousPatternError.
C1_Original ==
    (pc = "done" /\ Mismatched(Registry(registry), state_dict) # {})
        => IsAmbiguousPatternError(result)

\* C1 amended: every tensor the extraction loop has gone past is matched by
\* exactly one pattern; inference ends with AmbiguousPatternError exactly when
\* the loop stops at a tensor that zero or several patterns match; and a
\* mapping that holds such a tensor never yields a StructuralConfig (the
\* failure may be the earlier layer-count error or an earlier IndexError).
C1_Amended ==
    /\ \A k \in 1..(idx - 1) : MatchCount(Registry(registry), state_dict[k].name) = 1
    /\ pc = "done" =>
        /\ IsAmbiguousPatternError(result) <=>
              /\ idx \in 1..Len(state_dict)
              /\ MatchCount(Registry(registry), state_dict[idx].name) # 1
        /\ result.kind = "config" => Mismatched(Registry(registry), state_dict) = {}
        /\ Mismatched(Registry(registry), state_dict) # {} => result.kind = "error"

\* a tensor after the first is matched by two patterns of the registry with the
\* injected pattern, and inference stopped there with AmbiguousPatternError
C1_Witness ==
    /\ pc = "done"
    /\ registry = "injected"
    /\ idx \in 2..Len(state_dict)
    /\ MatchCount(Registry(registry), state_dict[idx].name) = 2
    /\ IsAmbiguousPatternError(result)
    /\ Cardinality(result.detail) = 2

\* the block index of a name of the form blocks.<index>.*
BlockIndexOf(name) ==
    LET dot == CHOOSE j \in 4..Len(name) :
                   name[j] = "." /\ \A i \in 3..(j - 1) : name[i] \in Digit
    IN ParseInt(SubSeq(name, 3, dot - 1))

BlockIndices(sd) ==
    {BlockIndexOf(sd[k].name) : k \in {j \in 1..Len(sd) : ReMatch(BlockPrefix, sd[j].name)}}

MaxOf(S) == CHOOSE x \in S : \A y \in S : y <= x

\* C2: n_layers is the largest block index among the names blocks.<index>.*
\* plus one, in any key order and with gaps between the indices; with no such
\* name inference fails with InferenceError and returns no config.
C2_LayerCount ==
    LET idxs == BlockIndices(state_dict)
    IN /\ pc = "loop" => idxs # {} /\ n_layers0 = MaxOf(idxs) + 1
       /\ pc = "done" =>
            /\ idxs = {} <=> IsInferenceError(result)
            /\ result.kind = "config" =>
                  idxs # {} /\ result.cfg.n_layers = MaxOf(idxs) + 1

\* blocks.23 comes before blocks.0, no block in between exists, and the config
\* says 24 layers
C2_Witness ==
    /\ pc = "done"
    /\ result.kind = "config"
    /\ BlockIndices(state_dict) = {0, 23}
    /\ \E i, j \in 1..Len(state_dict) :
          /\ i < j
          /\ state_dict[i].name = N_q23
          /\ state_dict[j].name = N_q0
    /\ result.cfg.n_layers = 24

ShapeFields == {"d_vocab", "d_model", "n_head", "d_head", "d_mlp"}

\* the tensors among the first n whose pattern has an instruction for field f
Contributors(reg, sd, f, n) ==
    {k \in 1..n : \E i \in 1..Len(InstrOf(reg, sd[k].name)) :
                      InstrOf(reg, sd[k].name)[i].key = f}

\* shape[dimensionIndex] of the first of the first n tensors that has an
\* instruction for f; None when there is none
FirstObserved(reg, sd, f, n) ==
    LET ks == Contributors(reg, sd, f, n)
    IN IF ks = {} THEN None
       ELSE LET first == CHOOSE k \in ks : \A j \in ks : k <= j
                ins == InstrOf(reg, sd[first].name)
                i == CHOOSE i \in 1..Len(ins) : ins[i].key = f
            IN sd[first].shape[ins[i].dim + 1]

\* C3: at every point of the loop, and in the returned config, each of d_vocab,
\* d_model, n_head, d_head, d_mlp is shape[dimensionIndex] of the first tensor,
\* in iteration order, whose pattern has an instruction for it; later tensors
\* of the same kind do not change it.
C3_FirstObservationWins ==
    /\ pc = "loop" =>
          \A f \in ShapeFields :
              param_dict[f] = FirstObserved(Registry(registry), state_dict, f, idx - 1)
    /\ (pc = "done" /\ result.kind = "config") =>
          \A f \in ShapeFields :
              result.cfg[f] = FirstObserved(Registry(registry), state_dict, f, Len(state_dict))

\* two W_Q tensors with different shapes; the config has the head count of the
\* one that comes first
C3_Witness ==
    /\ pc = "done"
    /\ result.kind = "config"
    /\ \E i, j \in 1..Len(state_dict) :
          /\ i < j
          /\ state_dict[i].name = N_q23
          /\ state_dict[j].name = N_q0
          /\ state_dict[i].shape = <<8, 512, 64>>
          /\ state_dict[j].shape = <<4, 512, 32>>
    /\ result.cfg.n_head = 8
    /\ result.cfg.d_head = 64

UnresolvedFields(pd) == {f \in Fields \ {"n_ctx"} : pd[f] = None}

\* C4 as stated: a config is returned only with every field but n_ctx
\* resolved; when the traversal ends with a field unresolved, inference fails
\* with IncompleteInferenceError, and the error lists the unresolved fields.
C4_Original ==
    pc = "done" =>
        /\ result.kind = "config" => UnresolvedFields(result.cfg) = {}
        /\ (idx > Len(state_dict) /\ UnresolvedFields(param_dict) # {}) =>
              /\ IsIncompleteInferenceError(result)
              /\ result.detail = UnresolvedFields(param_dict)

\* what the code does keep of C4: no config with an unresolved field, and the
\* assertion of line 157 after a traversal that left a field unresolved
C4_CompletionCheck ==
    pc = "done" =>
        /\ result.kind = "config" => UnresolvedFields(result.cfg) = {}
        /\ (idx > Len(state_dict) /\ UnresolvedFields(param_dict) # {}) <=>
              IsIncompleteInferenceError(result)

\* C10: a tensor whose one matching pattern has an empty instruction list
\* leaves param_dict as it is and raises nothing; no step changes n_ctx or
\* n_layers; the returned config has the caller's n_ctx (10 when omitted) and
\* the n_layers computed before the loop.
C10_Frame ==
    /\ [](/\ pc = "loop" =>
               /\ param_dict.n_ctx = (IF n_ctx_arg = None THEN 10 ELSE n_ctx_arg)
               /\ param_dict.n_layers = n_layers0
          /\ (pc = "done" /\ result.kind = "config") =>
               /\ result.cfg.n_ctx = (IF n_ctx_arg = None THEN 10 ELSE n_ctx_arg)
               /\ result.cfg.n_layers = n_layers0)
    /\ [][(/\ pc = "loop"
           /\ idx <= Len(state_dict)
           /\ MatchCount(Registry(registry), state_dict[idx].name) = 1
           /\ InstrOf(Registry(registry), state_dict[idx].name) = <<>>)
          => (/\ param_dict' = param_dict
              /\ pc' = "loop"
              /\ idx' = idx + 1
              /\ result' = result)]_vars

\* a config was returned for a mapping that starts with the position embedding,
\* with n_ctx omitted by the caller
C10_Witness ==
    /\ pc = "done"
    /\ result.kind = "config"
    /\ n_ctx_arg = None
    /\ result.cfg.n_ctx = 10
    /\ state_dict[1].name = N_pos

----------------------------------------------------------------------------
(* Specification of key order: the same entries in two orders *)

PosOf(name) == CHOOSE k \in 1..Len(NameUniverse) : NameUniverse[k] = name

\* the state dicts whose keys come in the order of NameUniverse
OrderedDicts ==
    {sd \in StateDicts :
        \A i, j \in 1..Len(sd) : i < j => PosOf(sd[i].name) < PosOf(sd[j].name)}

SwapAt(sd, k) ==
    [i \in 1..Len(sd) |-> IF i = k THEN sd[k + 1] ELSE IF i = k + 1 THEN sd[k] ELSE sd[i]]

InitOrder ==
    /\ registry \in RegistryTags
    /\ state_dict \in OrderedDicts
    /\ n_ctx_arg \in NCtxArgs
    /\ pc = "start"
    /\ idx = 0
    /\ param_dict = NoCfg
    /\ n_layers0 = None
    /\ result = NoResult
    /\ other_dict = state_dict
    /\ other_result = NoResult
    /\ IdleStore

\* the same entries, two neighbours exchanged
Reorder ==
    /\ pc = "start"
    /\ \E k \in 1..(Len(other_dict) - 1) : other_dict' = SwapAt(other_dict, k)
    /\ UNCHANGED <<inferVars, other_result>>

\* _state_dict_to_model_config on both orders
InferBoth ==
    /\ pc = "start"
    /\ pc' = "done"
    /\ result' = StateDictToModelConfig(Registry(registry), state_dict, NCtx(n_ctx_arg))
    /\ other_result' = StateDictToModelConfig(Registry(registry), other_dict, NCtx(n_ctx_arg))
    /\ UNCHANGED <<registry, state_dict, n_ctx_arg, idx, param_dict, n_layers0,
                   other_dict>>

NextOrder ==
    \/ Reorder /\ UNCHANGED storeVars
    \/ InferBoth /\ UNCHANGED storeVars

SpecOrder == InitOrder /\ [][NextOrder]_vars

\* the same StructuralConfig, or the same kind of error
SameOutcome(a, b) ==
    /\ a.kind = b.kind
    /\ a.kind = "config" => a.cfg = b.cfg
    /\ a.kind = "error" => a.exc = b.exc /\ a.line = b.line

\* every tensor one pattern matches has each dimension the pattern reads, and
\* two tensors whose patterns read the same field have the same value for it
ConsistentShapes(reg, sd) ==
    LET one == {k \in 1..Len(sd) : MatchCount(reg, sd[k].name) = 1}
        Reads(k) == {<<ins.key, ins.dim>> : ins \in
                        {InstrOf(reg, sd[k].name)[i] :
                            i \in 1..Len(InstrOf(reg, sd[k].name))}}
    IN /\ \A k \in one : \A r \in Reads(k) : r[2] + 1 <= Len(sd[k].shape)
       /\ \A k, j \in one : \A r \in Reads(k), q \in Reads(j) :
             r[1] = q[1] => sd[k].shape[r[2] + 1] = sd[j].shape[q[2] + 1]

\* C9 as stated: two mappings with the same entries in different orders give
\* the same outcome of inference.
C9_Original ==
    pc = "done" => SameOutcome(result, other_result)

\* C9 amended: when the tensors agree on every field their patterns read and
\* have every dimension read, the order of the entries does not change the
\* outcome of inference.
C9_Amended ==
    (pc = "done" /\ ConsistentShapes(Registry(registry), state_dict))
        => SameOutcome(result, other_result)

\* two W_Q tensors of one shape, in both orders, and a config from both
C9_Witness ==
    /\ pc = "done"
    /\ ConsistentShapes(Registry(registry), state_dict)
    /\ result.kind = "config"
    /\ other_result = result
    /\ \E i, j \in 1..Len(state_dict) :
          /\ i < j
          /\ state_dict[i].name = N_q0
          /\ state_dict[j].name = N_q23
          /\ \E a, b \in 1..Len(other_dict) :
                a < b /\ other_dict[a] = state_dict[j] /\ other_dict[b] = state_dict[i]

----------------------------------------------------------------------------
(* The persisters, lines 43-107 *)

\* f"{num_tokens_trained}.pt" (lines 54, 88)
ObjectName(n) == FormatInt(n) \o <<".", "pt">>

\* the values of num_tokens_trained given to save_model
Counters == {6 * c : c \in 0..MaxCounter}

\* the object names given to load_model: those save_model makes, and the one
\* of line 164, which no save of the model writes
LoadNames == {ObjectName(n) : n \in Counters} \cup {ObjectName(4800000)}

\* model.state_dict() of the models given to save_model: a full transformer,
\* the same transformer with other weights, and one without an MLP
CkptFull(d) ==
    <<TensorOf(N_embed, <<50000, 512>>, d), TensorOf(N_q0, <<8, 512, 64>>, d),
      TensorOf(N_in0, <<512, 2048>>, d)>>

CkptAttnOnly ==
    <<TensorOf(N_embed, <<50000, 512>>, 1), TensorOf(N_q0, <<8, 512, 64>>, 1)>>

Checkpoints == {CkptFull(1), CkptFull(2), CkptAttnOnly}

\* torch.save (lines 58, 94): the state dict as a flat sequence of fields, each
\* tensor as its name with its rank, its dimensions, and its data
Field(tag, toks, n) == [tag |-> tag, toks |-> toks, n |-> n]

RECURSIVE Serialize(_)
Serialize(sd) ==
    IF sd = <<>> THEN <<>>
    ELSE LET e == Head(sd)
         IN <<Field("name", e.name, Len(e.shape))>>
            \o [k \in 1..Len(e.shape) |-> Field("dim", <<>>, e.shape[k])]
            \o <<Field("data", <<>>, e.data)>>
            \o Serialize(Tail(sd))

RECURSIVE DeserializeDropLast(_)
DeserializeDropLast(bytes) ==
    IF bytes = <<>> THEN <<>>
    ELSE LET rank == bytes[1].n
             rest == SubSeq(bytes, rank + 3, Len(bytes))
         IN IF rest = <<>> THEN <<>>
            ELSE <<TensorOf(bytes[1].toks,
                            [k \in 1..rank |-> bytes[k + 1].n],
                            bytes[rank + 2].n)>>
                 \o DeserializeDropLast(rest)

\* torch.load (lines 61, 102)
RECURSIVE Deserialize(_)
Deserialize(bytes) ==
    IF bytes = <<>> THEN <<>>
    ELSE LET rank == bytes[1].n
         IN <<TensorOf(bytes[1].toks,
                       [k \in 1..rank |-> bytes[k + 1].n],
                       bytes[rank + 2].n)>>
            \o Deserialize(SubSeq(bytes, rank + 3, Len(bytes)))

OkResult ==
    [kind |-> "ok", exc |-> "", line |-> 0, detail |-> {}, cfg |-> NoCfg,
     weights |-> <<>>]

\* a model with its config and the weights it holds
Model(cfg, weights) ==
    [kind |-> "model", exc |-> "", line |-> 0, detail |-> {}, cfg |-> cfg,
     weights |-> weights]

LocalSaveOverwriteProtectionOff(st, object_name) == OkResult

\* LocalPersister._save_overwrite_protection (lines 49-51)
LocalSaveOverwriteProtection(st, object_name) ==
    IF object_name \in DOMAIN st
    THEN Exc("ValueError", 51, {"Overwrite Protection", "already exists"})
    ELSE OkResult

\* what s3.head_object (line 79) may answer for an object name: "200" when it
\* finds the object, a ClientError with code 404 when there is none, a
\* ClientError with another code (403) or an exception that is no ClientError
\* (EndpointConnectionError) when the backend does not answer the question
HeadAnswers(st, object_name) ==
    (IF object_name \in DOMAIN st THEN {"200"} ELSE {"404"})
        \cup {"403", "EndpointConnectionError"}

S3SaveOverwriteProtectionLax(head) ==
    IF head = "200"
    THEN Exc("ValueError", 80, {"Overwrite Protection", "already exists"})
    ELSE OkResult

\* S3Persister._save_overwrite_protection (lines 77-85) for an answer of
\* head_object
S3SaveOverwriteProtection(head) ==
    IF head = "200"
    THEN Exc("ValueError", 80, {"Overwrite Protection", "already exists"})
    ELSE IF head = "EndpointConnectionError"
    THEN Exc("EndpointConnectionError", 79, {})
    ELSE IF head = "404" THEN OkResult
    ELSE Exc("ValueError", 85, {"Expected 404 from empty object", head})

\* the collection after a write of bytes under object_name
Put(st, object_name, bytes) ==
    [k \in DOMAIN st \cup {object_name} |->
        IF k = object_name THEN bytes ELSE st[k]]

\* history: the state dict of the first save that wrote object_name
Remember(sv, object_name, sd) ==
    IF object_name \in DOMAIN sv THEN sv ELSE Put(sv, object_name, sd)

\* LocalPersister.save_model (lines 53-58)
LocalSaveModel ==
    /\ kind = "local"
    /\ \E sd \in Checkpoints, n \in Counters :
          LET save_path == ObjectName(n)
              guard == LocalSaveOverwriteProtection(store, save_path)
              op == [op |-> "save", key |-> save_path, weights |-> sd, head |-> "",
                     occupied |-> save_path \in DOMAIN store, inferred |-> FALSE,
                     before |-> store, result |-> guard]
          IN IF guard.kind = "error"
             THEN /\ last' = op
                  /\ UNCHANGED <<store, saved>>
             ELSE /\ store' = Put(store, save_path, Serialize(sd))
                  /\ saved' = Remember(saved, save_path, sd)
                  /\ last' = op
    /\ UNCHANGED kind

\* S3Persister.save_model (lines 87-96)
S3SaveModel ==
    /\ kind = "s3"
    /\ \E sd \in Checkpoints, n \in Counters :
          LET object_name == ObjectName(n)
          IN \E head \in HeadAnswers(store, object_name) :
                LET guard == S3SaveOverwriteProtection(head)
                    op == [op |-> "save", key |-> object_name, weights |-> sd,
                           head |-> head,
                           occupied |-> object_name \in DOMAIN store,
                           inferred |-> FALSE, before |-> store, result |-> guard]
                IN IF guard.kind = "error"
                   THEN /\ last' = op
                        /\ UNCHANGED <<store, saved>>
                   ELSE /\ store' = Put(store, object_name, Serialize(sd))
                        /\ saved' = Remember(saved, object_name, sd)
                        /\ last' = op
    /\ UNCHANGED kind

\* model.load_state_dict(state_dict) (lines 62, 106) on a model the state dict
\* fits: the model then holds the weights
LoadStateDict(model, sd) == Model(model.cfg, sd)

\* config.to_hooked_transformer(device) (line 105): an empty model of the
\* config, into which the weights can be loaded
ToHookedTransformer(cfg) == Model(cfg, <<>>)

\* LocalPersister.load_model (lines 60-63); torch.load raises
\* FileNotFoundError when there is no such file
LocalLoadModel ==
    /\ kind = "local"
    /\ \E object_name \in LoadNames :
          LET found == object_name \in DOMAIN store
              res == IF ~found THEN Exc("FileNotFoundError", 61, {})
                     ELSE LoadStateDict(Model(NoCfg, <<>>), Deserialize(store[object_name]))
          IN last' = [op |-> "load", key |-> object_name, weights |-> <<>>,
                      head |-> "", occupied |-> found, inferred |-> FALSE,
                      before |-> store, result |-> res]
    /\ UNCHANGED <<kind, store, saved>>

S3DownloadFileobjEmpty(st, object_name) ==
    IF object_name \in DOMAIN st
    THEN [ok |-> TRUE, bytes |-> st[object_name]]
    ELSE [ok |-> TRUE, bytes |-> <<>>]

\* s3.download_fileobj (line 100): a ClientError with code 404 when there is
\* no such object
S3DownloadFileobj(st, object_name) ==
    IF object_name \in DOMAIN st
    THEN [ok |-> TRUE, bytes |-> st[object_name]]
    ELSE [ok |-> FALSE, bytes |-> <<>>]

\* S3Persister.load_model (lines 98-107)
S3LoadModel ==
    /\ kind = "s3"
    /\ \E object_name \in LoadNames :
          LET dl == S3DownloadFileobj(store, object_name)
              sd == Deserialize(dl.bytes)
              config == StateDictToModelConfig(RegistryBase, sd, NCtx(None))
              res == IF ~dl.ok THEN Exc("ClientError", 100, {"404"})
                     ELSE IF config.kind = "error" THEN config
                     ELSE LoadStateDict(ToHookedTransformer(config.cfg), sd)
          IN last' = [op |-> "load", key |-> object_name, weights |-> <<>>,
                      head |-> "", occupied |-> object_name \in DOMAIN store,
                      inferred |-> dl.ok, before |-> store, result |-> res]
    /\ UNCHANGED <<kind, store, saved>>

IdleInfer ==
    /\ registry = "base"
    /\ state_dict = <<>>
    /\ n_ctx_arg = None
    /\ pc = "idle"
    /\ idx = 0
    /\ param_dict = NoCfg
    /\ n_layers0 = None
    /\ result = NoResult

\* after LocalPersister.__init__ or S3Persister.__init__ on an empty collection
InitStore ==
    /\ kind \in {"local", "s3"}
    /\ store = <<>>
    /\ saved = <<>>
    /\ last = LastNone
    /\ IdleInfer
    /\ IdleOrder

NextStore ==
    \/ LocalSaveModel /\ UNCHANGED inferVars /\ UNCHANGED orderVars
    \/ S3SaveModel /\ UNCHANGED inferVars /\ UNCHANGED orderVars
    \/ LocalLoadModel /\ UNCHANGED inferVars /\ UNCHANGED orderVars
    \/ S3LoadModel /\ UNCHANGED inferVars /\ UNCHANGED orderVars

SpecStore == InitStore /\ [][NextStore]_vars

----------------------------------------------------------------------------
(* Properties of the persisters *)

\* the error names of the specification, as the code raises them
IsOverwriteError(r) ==
    r.kind = "error" /\ r.exc = "ValueError" /\ "Overwrite Protection" \in r.detail

IsBackendError(r) ==
    /\ r.kind = "error"
    /\ \/ r.exc = "ValueError" /\ "Expected 404 from empty object" \in r.detail
       \/ r.exc = "EndpointConnectionError"

IsNotFoundError(r) ==
    /\ r.kind = "error"
    /\ \/ r.exc = "FileNotFoundError" /\ r.line = 61
       \/ r.exc = "ClientError" /\ r.line = 100 /\ "404" \in r.detail

\* what a caller sees of an exception: its class and its message
Seen(r) == <<r.kind, r.exc, r.detail>>

\* every stored object is the serialized state dict of the first save that
\* wrote its key
FirstSaveKept ==
    /\ DOMAIN store = DOMAIN saved
    /\ \A k \in DOMAIN store : store[k] = Serialize(saved[k])

\* C5 as stated: a save whose key is occupied fails with OverwriteError and
\* writes nothing, and every stored object stays the one its first save wrote.
C5_Original ==
    /\ (last.op = "save" /\ last.occupied) =>
          IsOverwriteError(last.result) /\ store = last.before
    /\ FirstSaveKept

\* C5 amended: a save whose key is occupied fails and writes nothing, with
\* OverwriteError when the existence check finds the object (always, for the
\* local persister) and with BackendError when the remote existence check
\* itself fails; every stored object stays the one its first save wrote.
C5_Amended ==
    /\ (last.op = "save" /\ last.occupied) =>
          /\ store = last.before
          /\ last.result.kind = "error"
          /\ (kind = "local" \/ last.head = "200") <=> IsOverwriteError(last.result)
          /\ (kind = "s3" /\ last.head # "200") <=> IsBackendError(last.result)
    /\ FirstSaveKept

\* a save of other weights to an occupied key was refused with OverwriteError
\* and the stored object is still the first one
C5_Witness ==
    /\ last.op = "save"
    /\ last.occupied
    /\ IsOverwriteError(last.result)
    /\ last.weights # saved[last.key]
    /\ store[last.key] = Serialize(saved[last.key])
    /\ store[last.key] # Serialize(last.weights)

\* C6: a remote save whose existence check fails with anything but "not found"
\* ends with a BackendError that the caller can tell from OverwriteError and
\* from success, and uploads nothing; the save goes on to the upload only
\* after a "not found" answer.
C6_BackendError ==
    (kind = "s3" /\ last.op = "save") =>
        /\ last.head \notin {"200", "404"} =>
              /\ IsBackendError(last.result)
              /\ ~IsOverwriteError(last.result)
              /\ Seen(last.result) # Seen(S3SaveOverwriteProtection("200"))
              /\ Seen(last.result) # Seen(OkResult)
              /\ store = last.before
        /\ last.result.kind = "ok" <=> last.head = "404"
        /\ store # last.before => last.head = "404"

\* the existence check for a free key was answered 403: BackendError, and the
\* key is still free
C6_Witness ==
    /\ kind = "s3"
    /\ last.op = "save"
    /\ last.head = "403"
    /\ ~last.occupied
    /\ IsBackendError(last.result)
    /\ last.key \notin DOMAIN store
    /\ store # <<>>

C8_NotFound ==
    /\ (last.op = "load" /\ ~last.occupied) =>
          /\ IsNotFoundError(last.result)
          /\ last.result.weights = <<>>
          /\ ~last.inferred
    /\ last.op = "load" =>
          /\ store = last.before
          /\ last.occupied <=> last.key \in DOMAIN store

\* a remote load of 4800000.pt from a collection that holds other objects
C8_Witness ==
    /\ kind = "s3"
    /\ last.op = "load"
    /\ last.key = ObjectName(4800000)
    /\ store # <<>>
    /\ IsNotFoundError(last.result)

============================================================================
